---- MODULE Spec2Model ----
(***************************************************************************)
(* The chain indexer of hac-node/agent/client.go: the sync loop            *)
(* (ChainIndexer.Start), the event handlers, the vote reconciliation       *)
(* (handleVote) and the account lookup (queryAccount), over the record     *)
(* store of hac-node/agent/model.go.                                       *)
(*                                                                         *)
(* The record store (gorm over sqlite), the chain RPC client (comethttp)   *)
(* and the advisory agent are the program's environment: each call to them *)
(* either succeeds or fails, chosen by the action that makes the call.     *)
(***************************************************************************)
EXTENDS Integers, Sequences, FiniteSets, TLC

\* ------------------------------------------------------------------ bounds

\* Number of blocks the chain holds (heights 1..MaxHeight).
MaxHeight == 2
\* Number of rows of the discussions table up to which the runs are followed:
\* a Discussion event is dispatched only to a table of fewer rows.
MaxRows == 2

\* ------------------------------------------------------------- small helpers

Max(S) == CHOOSE x \in S : \A y \in S : y <= x

Range(s) == {s[i] : i \in DOMAIN s}

RECURSIVE Flatten(_)
\* for _, res := range TxsResults { for _, event := range res.Events {...} }
Flatten(txs) ==
    IF txs = <<>> THEN <<>> ELSE Head(txs) \o Flatten(Tail(txs))

\* ----------------------------------------------------- hex keys of accounts

\* ValidatorAddress.String(): two hex digits per byte.
HexString(bytes) ==
    [i \in 1..(2 * Len(bytes)) |->
        IF i % 2 = 1 THEN bytes[(i + 1) \div 2] \div 16 ELSE bytes[i \div 2] % 16]

RECURSIVE HexDigits(_)
\* %x of an unsigned integer: no leading zeros, "0" for zero.
HexDigits(n) ==
    IF n < 16 THEN <<n>> ELSE Append(HexDigits(n \div 16), n % 16)

\* hex.DecodeString: an odd number of digits is an error.
DecodeString(s) ==
    IF Len(s) % 2 = 1
    THEN [err |-> TRUE, dat |-> <<>>]
    ELSE [err |-> FALSE,
          dat |-> [i \in 1..(Len(s) \div 2) |-> s[2 * i - 1] * 16 + s[2 * i]]]

\* s := fmt.Sprintf("0%x", index); if len(s)&1 == 1 { s = s[1:] }
IndexKey(index) ==
    LET s == <<0>> \o HexDigits(index)
    IN  DecodeString(IF Len(s) % 2 = 1 THEN Tail(s) ELSE s).dat

\* ---------------------------------------------------------------- the store

\* A table is a function from primary keys (positive integers) to rows.
EmptyTable == [k \in {} |-> 0]

NextId(tbl) == IF DOMAIN tbl = {} THEN 1 ELSE Max(DOMAIN tbl) + 1

Upsert(tbl, row) ==
    [k \in DOMAIN tbl \cup {row.Id} |-> IF k = row.Id THEN row ELSE tbl[k]]

\* db.Create: insert under the next automatic id.
Create(tbl, row) == Upsert(tbl, [row EXCEPT !.Id = NextId(tbl)])

\* db.Save: a blank (zero) primary key inserts under the next automatic id,
\* any other key updates the row of that key or inserts it.
Save(tbl, row) == IF row.Id = 0 THEN Create(tbl, row) ELSE Upsert(tbl, row)

Rows(tbl) == {tbl[k] : k \in DOMAIN tbl}

\* db.Where(cond).First(&row): the row of least primary key, the zero value
\* (Id 0) when there is none.
First(tbl, hit) ==
    IF hit = {} THEN [Id |-> 0]
    ELSE tbl[CHOOSE k \in hit : \A j \in hit : k <= j]

\* db.Where("col = ?", val): the primary keys of the rows it selects.
Where(tbl, col, val) == {k \in DOMAIN tbl : tbl[k][col] = val}

\* The tables of db.AutoMigrate and the stored height.  There is no table of
\* Validator rows: AutoMigrate does not name the type.
NewDB ==
    [height        |-> 0,
     proposals     |-> EmptyTable,
     grants        |-> EmptyTable,
     discussions   |-> EmptyTable,
     proposalVotes |-> EmptyTable,
     grantVotes    |-> EmptyTable]

\* ------------------------------------------------------------ chain events

\* An abci.Event as the handlers see it: its type tag, whether its attributes
\* decode (ok), and the decoded fields: id (Grant: Validator, Discussion and
\* SettleProposal: Proposal, Proposal: ProposalIndex), st (Grant: Amount,
\* Proposal: Status, SettleProposal: State), who (Grant: ProposerIndex,
\* Discussion: Speaker, Proposal: Proposer) and data (Data).  The address
\* strings the handlers copy unread into the rows are left out.
Event(type, ok, id, st, who, data) ==
    [type |-> type, ok |-> ok, id |-> id, st |-> st, who |-> who, data |-> data]

\* hac_types.Event*Type, the keys of c.eventHandlers.
EventGrantType == "grant"
EventDiscussionType == "discussion"
EventSettleProposalType == "settle_proposal"
EventProposalType == "proposal"

\* The store and advisory-agent calls of one handler that fail:
\* db1, db2 the first and second store call, ag1, ag2 the agent calls.
HandlerFaults == [db1 : BOOLEAN, db2 : BOOLEAN, ag1 : BOOLEAN, ag2 : BOOLEAN]

NoFault == [db1 |-> FALSE, db2 |-> FALSE, ag1 |-> FALSE, ag2 |-> FALSE]

\* The faults of the store calls alone.
StoreFaults == {f \in HandlerFaults : ~f.ag1 /\ ~f.ag2}

\* What a handler leaves behind: the store, the advisory-agent calls it made
\* and the errors it logged.
Handled(db, agent, log) == [db |-> db, agent |-> agent, log |-> log]

\* c.db.Save(&val) writes to a table the store does not have: it fails on
\* every Grant event, whatever the first Save did.
handleEventGrant(db, ev, height, f) ==
    IF ~ev.ok THEN Handled(db, <<>>, {"decode event fail"})
    ELSE
      LET grant == [Id |-> ev.id, Height |-> height, Stake |-> ev.st,
                    Proposer |-> ev.who]
          db1   == IF f.db1 THEN db
                   ELSE [db EXCEPT !.grants = Save(db.grants, grant)]
      IN  Handled(db1, <<>>,
                  (IF f.db1 THEN {"save account fail"} ELSE {})
                    \cup {"save validator fail"})

\* A Discussion handler that gives up when the advisory agent fails.
handleEventDiscussionAgentFirst(db, ev, height, f) ==
    IF ~ev.ok THEN Handled(db, <<>>, {"decode event fail"})
    ELSE IF f.ag1 THEN Handled(db, <<"AddDiscussion">>, {"add discussion fail"})
    ELSE
      LET discusstion == [Id |-> 0, Proposal |-> ev.id, SpeakerIndex |-> ev.who,
                          Data |-> ev.data, Height |-> height]
          fail == f.db1
          db1  == IF fail THEN db
                  ELSE [db EXCEPT !.discussions = Save(db.discussions, discusstion)]
      IN  Handled(db1, <<"AddDiscussion">>,
                  IF fail THEN {"save discusstion fail"} ELSE {})

handleEventDiscussion(db, ev, height, f) ==
    IF ~ev.ok THEN Handled(db, <<>>, {"decode event fail"})
    ELSE
      LET discusstion == [Id |-> 0, Proposal |-> ev.id, SpeakerIndex |-> ev.who,
                          Data |-> ev.data, Height |-> height]
          fail == f.db1
          db1  == IF fail THEN db
                  ELSE [db EXCEPT !.discussions = Save(db.discussions, discusstion)]
      IN  Handled(db1, <<"AddDiscussion">>,
                  (IF fail THEN {"save discusstion fail"} ELSE {})
                    \cup (IF f.ag1 THEN {"add discussion fail"} ELSE {}))

\* A settlement that also stamps the creation height.
handleEventSettleProposalRestamps(db, ev, height, f) ==
    IF ~ev.ok THEN Handled(db, <<>>, {"decode event fail"})
    ELSE
      LET found == First(db.proposals, Where(db.proposals, "Id", ev.id))
      IN  IF f.db1 \/ found.Id = 0
          THEN Handled(db, <<>>, {"get proposal fail"})
          ELSE
            LET proposal == [found EXCEPT !.Status = ev.st,
                                          !.SettleHeight = height,
                                          !.NewHeight = height]
            IN  IF f.db2 THEN Handled(db, <<>>, {"save proposal fail"})
                ELSE Handled([db EXCEPT !.proposals = Save(db.proposals, proposal)],
                             <<>>, {})

handleEventSettleProposal(db, ev, height, f) ==
    IF ~ev.ok THEN Handled(db, <<>>, {"decode event fail"})
    ELSE
      LET found == First(db.proposals, Where(db.proposals, "Id", ev.id))
      IN  IF f.db1 \/ found.Id = 0
          THEN Handled(db, <<>>, {"get proposal fail"})
          ELSE
            LET proposal == [found EXCEPT !.Status = ev.st,
                                          !.SettleHeight = height]
            IN  IF f.db2 THEN Handled(db, <<>>, {"save proposal fail"})
                ELSE Handled([db EXCEPT !.proposals = Save(db.proposals, proposal)],
                             <<>>, {})

\* A Proposal handler that does not look at the decoder's result.
handleEventProposalUndecoded(db, ev, height, f) ==
    LET proposal == [Id |-> ev.id, ProposerIndex |-> ev.who, Data |-> ev.data,
                     NewHeight |-> height, SettleHeight |-> 0,
                     Status |-> ev.st]
        db1 == IF f.db1 THEN db
               ELSE [db EXCEPT !.proposals = Save(db.proposals, proposal)]
    IN  Handled(db1, <<"AddProposal", "CommentPropoal">>,
                (IF f.db1 THEN {"save proposal fail"} ELSE {})
                  \cup (IF f.ag1 THEN {"add proposal fail"} ELSE {})
                  \cup (IF f.ag2 THEN {"comment proposal fail"} ELSE {}))

handleEventProposal(db, ev, height, f) ==
    IF ~ev.ok THEN Handled(db, <<>>, {"decode event fail"})
    ELSE
      LET proposal == [Id |-> ev.id, ProposerIndex |-> ev.who, Data |-> ev.data,
                       NewHeight |-> height, SettleHeight |-> 0,
                       Status |-> ev.st]
          db1 == IF f.db1 THEN db
                 ELSE [db EXCEPT !.proposals = Save(db.proposals, proposal)]
      IN  Handled(db1, <<"AddProposal", "CommentPropoal">>,
                  (IF f.db1 THEN {"save proposal fail"} ELSE {})
                    \cup (IF f.ag1 THEN {"add proposal fail"} ELSE {})
                    \cup (IF f.ag2 THEN {"comment proposal fail"} ELSE {}))

\* A dispatcher that hands an event of any other type to the Discussion
\* handler.
handleEventWithDefault(db, ev, height, f) ==
    CASE ev.type = EventGrantType          -> handleEventGrant(db, ev, height, f)
      [] ev.type = EventSettleProposalType -> handleEventSettleProposal(db, ev, height, f)
      [] ev.type = EventProposalType       -> handleEventProposal(db, ev, height, f)
      [] OTHER                             -> handleEventDiscussion(db, ev, height, f)

\* if h, ok := c.eventHandlers[event.Type]; ok { h(ctx, event, height) }
handleEvent(db, ev, height, f) ==
    CASE ev.type = EventGrantType          -> handleEventGrant(db, ev, height, f)
      [] ev.type = EventDiscussionType     -> handleEventDiscussion(db, ev, height, f)
      [] ev.type = EventSettleProposalType -> handleEventSettleProposal(db, ev, height, f)
      [] ev.type = EventProposalType       -> handleEventProposal(db, ev, height, f)
      [] OTHER                             -> Handled(db, <<>>, {})

\* ----------------------------------------------------------- account lookup

\* The accounts the chain application can hold: a stable index and the
\* address bytes (one byte here, twenty on the chain).
Accounts == {[Index |-> 0, addr |-> <<160>>], [Index |-> 1, addr |-> <<161>>]}

\* c.cli.ABCIQuery(ctx, "/accounts/", dat) against the registered accounts:
\* the key is an address or the bytes of an index.
ABCIQuery(registered, dat) ==
    LET hit == {a \in registered : a.addr = dat \/ IndexKey(a.Index) = dat}
    IN  IF hit = {} THEN [Code |-> 1, Value |-> [Index |-> 0, addr |-> <<>>]]
        ELSE [Code |-> 0, Value |-> CHOOSE a \in hit : TRUE]

\* How a chain RPC call ends: "ok"; an error with the client still running
\* ("errRunning"); an error with the client down and the reconnect
\* succeeding ("errReconnOk") or failing ("errReconnFail").
RpcOutcomes == {"ok", "errRunning", "errReconnOk", "errReconnFail"}

\* queryAccount(ctx, index, address) with the RPC call ending as rpc.
\* err is "nil", "err" (an error is returned) or "panic" (res is nil after a
\* failed call and res.Response is read); cli is "nil" after a failed
\* reconnect.
queryAccount(registered, index, address, rpc) ==
    LET dec == IF Len(address) > 0 THEN DecodeString(address)
               ELSE [err |-> FALSE, dat |-> IndexKey(index)]
        res == ABCIQuery(registered, dec.dat)
        none == [Index |-> 0, addr |-> <<>>]
    IN  IF dec.err THEN [err |-> "err", acc |-> none, cli |-> "ok"]
        ELSE IF rpc = "errReconnFail" THEN [err |-> "err", acc |-> none, cli |-> "nil"]
        ELSE IF rpc \in {"errRunning", "errReconnOk"}
             THEN [err |-> "panic", acc |-> none, cli |-> "ok"]
        ELSE IF res.Code # 0 THEN [err |-> "err", acc |-> none, cli |-> "ok"]
        ELSE [err |-> "nil", acc |-> res.Value, cli |-> "ok"]

\* ------------------------------------------------------ vote reconciliation

\* A commit signature: the validator's address bytes (empty for an absent
\* validator) and the vote code.
Sig(addr, code) == [addr |-> addr, code |-> code]

\* Where a run of handleVote fails: at = 0 before the signatures ("commit":
\* the Commit call, ending as rpc; "dbNew", "dbSettle", "dbGrant": the three
\* lookups of the matching record), at = k while handling the k-th signature
\* ("abci": the account query, ending as rpc; "dbFind": the lookup of the
\* vote row; "dbCreate": its insert).
VoteFault(at, kind, rpc) == [at |-> at, kind |-> kind, rpc |-> rpc]

NoVoteFault == VoteFault(0, "none", "ok")

\* A row that names the voter where the proposal (or the grant) belongs.
NewVoteOfVoter(table, rec, acc, v, voteHeight) ==
    IF table = "proposalVotes"
    THEN [Id |-> 0, Proposal |-> acc.Index, VoterIndex |-> acc.Index,
          VoterAddress |-> HexString(v.addr), Height |-> voteHeight,
          Vote |-> v.code]
    ELSE [Id |-> 0, ProposerIndex |-> rec.Proposer, AccountIndex |-> acc.Index,
          VoterIndex |-> acc.Index, VoterAddress |-> HexString(acc.addr),
          Height |-> voteHeight, Vote |-> v.code]

\* A row stored under the height after the commit's.
NewVoteNextHeight(table, rec, acc, v, voteHeight) ==
    IF table = "proposalVotes"
    THEN [Id |-> 0, Proposal |-> rec.Id, VoterIndex |-> acc.Index,
          VoterAddress |-> HexString(v.addr), Height |-> voteHeight + 1,
          Vote |-> v.code]
    ELSE [Id |-> 0, ProposerIndex |-> rec.Proposer, AccountIndex |-> rec.Id,
          VoterIndex |-> acc.Index, VoterAddress |-> HexString(acc.addr),
          Height |-> voteHeight + 1, Vote |-> v.code]

\* The row the loop body builds for signature v of account acc.
NewVote(table, rec, acc, v, voteHeight) ==
    IF table = "proposalVotes"
    THEN [Id |-> 0, Proposal |-> rec.Id, VoterIndex |-> acc.Index,
          VoterAddress |-> HexString(v.addr), Height |-> voteHeight,
          Vote |-> v.code]
    ELSE [Id |-> 0, ProposerIndex |-> rec.Proposer, AccountIndex |-> rec.Id,
          VoterIndex |-> acc.Index, VoterAddress |-> HexString(acc.addr),
          Height |-> voteHeight, Vote |-> v.code]

\* A lookup that never finds the row.
VoteExistsNever(votes, voteHeight, index) == FALSE

\* The lookup before the insert:
\* db.Where("height = ? And voter_index = ?", voteHeight, acc.Index).First(..)
VoteExists(votes, voteHeight, index) ==
    \E r \in Rows(votes) : r.Height = voteHeight /\ r.VoterIndex = index

\* A loop body that skips a signer the account lookup does not resolve.
voteOneSkipUnknown(votes, table, rec, v, voteHeight, registered, fault) ==
    LET q == queryAccount(registered, 0, HexString(v.addr), "ok")
    IN  IF q.err # "nil" \/ VoteExists(votes, voteHeight, q.acc.Index)
        THEN [err |-> "nil", votes |-> votes, cli |-> "ok"]
        ELSE [err |-> "nil", cli |-> "ok",
              votes |-> Create(votes, NewVote(table, rec, q.acc, v, voteHeight))]

\* The body of `for _, v := range res.Commit.Signatures`.
voteOne(votes, table, rec, v, voteHeight, registered, fault) ==
    LET q == queryAccount(registered, 0, HexString(v.addr),
                          IF fault.kind = "abci" THEN fault.rpc ELSE "ok")
    IN  IF q.err # "nil" THEN [err |-> q.err, votes |-> votes, cli |-> q.cli]
        ELSE IF fault.kind = "dbFind"
             THEN [err |-> "err", votes |-> votes, cli |-> "ok"]
        ELSE IF VoteExists(votes, voteHeight, q.acc.Index)
             THEN [err |-> "nil", votes |-> votes, cli |-> "ok"]
        ELSE IF fault.kind = "dbCreate"
             THEN [err |-> "err", votes |-> votes, cli |-> "ok"]
        ELSE [err |-> "nil", cli |-> "ok",
              votes |-> Create(votes, NewVote(table, rec, q.acc, v, voteHeight))]

RECURSIVE voteLoop(_, _, _, _, _, _, _, _)
\* The signature loop from the k-th signature on.
voteLoop(votes, table, rec, sigs, k, voteHeight, registered, f) ==
    IF k > Len(sigs) THEN [err |-> "nil", votes |-> votes, cli |-> "ok"]
    ELSE
      LET one == voteOne(votes, table, rec, sigs[k], voteHeight, registered,
                         IF f.at = k THEN f ELSE NoVoteFault)
      IN  IF one.err # "nil" THEN one
          ELSE voteLoop(one.votes, table, rec, sigs, k + 1, voteHeight,
                        registered, f)

\* A handleVote that looks for a settled proposal before a created one.
handleVoteSettleFirst(db, height, commit, registered, f) ==
    LET voteHeight == commit.Height
        newProposel == First(db.proposals,
                             Where(db.proposals, "NewHeight", voteHeight))
        settleProposel == First(db.proposals,
                                Where(db.proposals, "SettleHeight", voteHeight))
        grant == First(db.grants, Where(db.grants, "Height", voteHeight))
        pv(rec) == voteLoop(db.proposalVotes, "proposalVotes", rec,
                            commit.Signatures, 1, voteHeight, registered, f)
        gv(rec) == voteLoop(db.grantVotes, "grantVotes", rec,
                            commit.Signatures, 1, voteHeight, registered, f)
    IN  IF settleProposel.Id # 0
          THEN [err |-> pv(settleProposel).err, cli |-> pv(settleProposel).cli,
                db |-> [db EXCEPT !.proposalVotes = pv(settleProposel).votes]]
        ELSE IF newProposel.Id # 0
          THEN [err |-> pv(newProposel).err, cli |-> pv(newProposel).cli,
                db |-> [db EXCEPT !.proposalVotes = pv(newProposel).votes]]
        ELSE IF grant.Id # 0
          THEN [err |-> gv(grant).err, cli |-> gv(grant).cli,
                db |-> [db EXCEPT !.grantVotes = gv(grant).votes]]
        ELSE [err |-> "nil", db |-> db, cli |-> "ok"]

\* handleVote(ctx, height) on the commit of that height.
\* The result: err ("nil", "err" or "panic"), the store and the client.
handleVote(db, height, commit, registered, f) ==
    LET voteHeight == commit.Height
        newProposel == First(db.proposals,
                             Where(db.proposals, "NewHeight", voteHeight))
        settleProposel == First(db.proposals,
                                Where(db.proposals, "SettleHeight", voteHeight))
        grant == First(db.grants, Where(db.grants, "Height", voteHeight))
        at0(kind) == f.at = 0 /\ f.kind = kind
        pv(rec) == voteLoop(db.proposalVotes, "proposalVotes", rec,
                            commit.Signatures, 1, voteHeight, registered, f)
        gv(rec) == voteLoop(db.grantVotes, "grantVotes", rec,
                            commit.Signatures, 1, voteHeight, registered, f)
    IN  IF at0("commit") /\ f.rpc = "errReconnFail"
          THEN [err |-> "err", db |-> db, cli |-> "nil"]
        ELSE IF at0("commit") /\ f.rpc \in {"errRunning", "errReconnOk"}
          THEN [err |-> "panic", db |-> db, cli |-> "ok"]
        ELSE IF at0("dbNew") THEN [err |-> "err", db |-> db, cli |-> "ok"]
        ELSE IF newProposel.Id # 0
          THEN [err |-> pv(newProposel).err, cli |-> pv(newProposel).cli,
                db |-> [db EXCEPT !.proposalVotes = pv(newProposel).votes]]
        ELSE IF at0("dbSettle") THEN [err |-> "err", db |-> db, cli |-> "ok"]
        ELSE IF settleProposel.Id # 0
          THEN [err |-> pv(settleProposel).err, cli |-> pv(settleProposel).cli,
                db |-> [db EXCEPT !.proposalVotes = pv(settleProposel).votes]]
        ELSE IF at0("dbGrant") THEN [err |-> "err", db |-> db, cli |-> "ok"]
        ELSE IF grant.Id # 0
          THEN [err |-> gv(grant).err, cli |-> gv(grant).cli,
                db |-> [db EXCEPT !.grantVotes = gv(grant).votes]]
        ELSE [err |-> "nil", db |-> db, cli |-> "ok"]

\* The vote table of the pending record height h matches in the store:
\* a proposal created or settled at h, else a grant of h, else none.
Matched(store, h) ==
    IF \E r \in Rows(store.proposals) : r.NewHeight = h \/ r.SettleHeight = h
    THEN "proposalVotes"
    ELSE IF \E r \in Rows(store.grants) : r.Height = h
    THEN "grantVotes"
    ELSE "none"

\* -------------------------------------------------------------- the chain

\* Events the blocks are built from.
P1 == Event(EventProposalType, TRUE, 1, 0, 1, 7)
S1 == Event(EventSettleProposalType, TRUE, 1, 2, 0, 0)
G1 == Event(EventGrantType, TRUE, 1, 5, 0, 0)
D1 == Event(EventDiscussionType, TRUE, 1, 0, 1, 9)

\* Signatures: an absent validator (no address), and the two accounts.
SigAbsent == Sig(<<>>, 1)
SigV0 == Sig(<<160>>, 2)
SigV1 == Sig(<<161>>, 2)

\* A block: its transaction results (events grouped by transaction) and the
\* signatures of its commit.
Block(txs, sigs) == [txs |-> txs, sigs |-> sigs]

Blocks ==
    { Block(<<>>, <<SigV0>>),
      Block(<< <<P1>>, <<S1>> >>, <<SigV0, SigV1>>),
      Block(<< <<S1>> >>, <<SigAbsent, SigV0>>),
      Block(<< <<D1>> >>, <<SigV0>>),
      Block(<< <<G1>> >>, <<SigAbsent, SigV0>>) }

Chains == [1..MaxHeight -> Blocks]

\* ------------------------------------------------------------------- state

VARIABLES
    pc,         \* where Start is: "idle" (waiting in select), "loop" (top of the
                \* catch-up loop body), "dispatch" (the events, then the call
                \* of handleVote), "vote" (the signature loop of handleVote),
                \* "save" (the height write), "crashed" (panic), "stopped"
                \* (returned after ctx.Done)
    Height,     \* c.Height
    cli,        \* c.cli: "ok" or "nil"
    b,          \* b.SyncInfo.LatestBlockHeight of the tick in progress, else 0
    events,     \* the events of the fetched block results, in order
    next,       \* index of the next event to dispatch
    sig,        \* index of the signature handleVote is at, 0 outside its loop
    db,         \* the record store
    log,        \* errors the handlers logged in the iteration in progress
    agent,      \* advisory-agent calls made by the last step of Start
    unresolved, \* a handleVote of c.Height failed on a signer the account
                \* lookup did not resolve (since this process came to c.Height)
    ctxDone,    \* ctx.Done() is closed
    chain,      \* the blocks of the chain, by height
    head,       \* the chain's latest block height
    registered  \* the accounts the chain application knows

vars == <<pc, Height, cli, b, events, next, sig, db, log, agent, unresolved,
          ctxDone, chain, head, registered>>

env == <<chain, head, registered>>

\* c.cli.BlockResults(ctx, &height)
BlockResults(height) == Flatten(chain[height].txs)

\* c.cli.Commit(ctx, &height)
Commit(height) == [Height |-> height, Signatures |-> chain[height].sigs]

\* A resume point at the stored height itself.
NewChainIndexerAtStored(store) == [Height |-> store.height, cli |-> "ok"]

\* A resume point that ignores the stored progress.
NewChainIndexerFromOne(store) == [Height |-> 1, cli |-> "ok"]

\* NewChainIndexer: the resume point is read from the store.
NewChainIndexer(store) == [Height |-> store.height + 1, cli |-> "ok"]

\* The state after construction on an empty store, over the given chains and
\* with the given accounts known to the chain application.
InitOver(chains, accounts) ==
    /\ chain \in chains
    /\ head = 1
    /\ registered = accounts
    /\ db = NewDB
    /\ pc = "idle"
    /\ Height = NewChainIndexer(NewDB).Height
    /\ cli = NewChainIndexer(NewDB).cli
    /\ b = 0
    /\ events = <<>>
    /\ next = 1
    /\ sig = 0
    /\ log = {}
    /\ agent = <<>>
    /\ unresolved = FALSE
    /\ ctxDone = FALSE

\* Only the validator of index 0 is known at the start.
Init == InitOver(Chains, {a \in Accounts : a.Index = 0})

\* ---------------------------------------------------------------- Start

\* A nil pointer is dereferenced: the process panics and what it held in
\* memory is gone.
Panic ==
    /\ pc' = "crashed"
    /\ b' = 0
    /\ events' = <<>>
    /\ next' = 1
    /\ log' = {}

\* `continue` in the catch-up loop: the loop condition is evaluated again, on
\* the same b and the same c.Height, so the body is entered again.
Continue ==
    /\ pc' = "loop"
    /\ events' = <<>>
    /\ next' = 1
    /\ log' = {}
    /\ UNCHANGED b

\* A tick that enters the catch-up loop for the head height as well.
TickUpToHead(newFails, rpc) ==
    /\ pc = "idle"
    /\ IF cli = "nil" /\ newFails
       THEN UNCHANGED <<pc, cli, b, events, next, log>>
       ELSE CASE rpc = "ok" ->
                   /\ cli' = "ok"
                   /\ IF head >= Height /\ Height \in DOMAIN chain
                      THEN pc' = "loop" /\ b' = head
                      ELSE pc' = "idle" /\ b' = 0
                   /\ UNCHANGED <<events, next, log>>
              [] rpc = "errReconnFail" ->
                   /\ cli' = "nil"
                   /\ UNCHANGED <<pc, b, events, next, log>>
              [] OTHER ->
                   /\ cli' = "ok"
                   /\ Panic
    /\ agent' = <<>>
    /\ UNCHANGED <<Height, sig, db, unresolved, ctxDone, env>>

\* case <-ticker.C: connect if there is no client, query the head, enter the
\* catch-up loop.  newFails: comethttp.New fails; rpc: how Status ends.
Tick(newFails, rpc) ==
    /\ pc = "idle"
    /\ IF cli = "nil" /\ newFails
       THEN UNCHANGED <<pc, cli, b, events, next, log>>
       ELSE CASE rpc = "ok" ->
                   /\ cli' = "ok"
                   /\ IF head > Height
                      THEN pc' = "loop" /\ b' = head
                      ELSE pc' = "idle" /\ b' = 0
                   /\ UNCHANGED <<events, next, log>>
              [] rpc = "errReconnFail" ->
                   /\ cli' = "nil"
                   /\ UNCHANGED <<pc, b, events, next, log>>
              [] OTHER ->
                   \* b is nil and b.SyncInfo is read
                   /\ cli' = "ok"
                   /\ Panic
    /\ agent' = <<>>
    /\ UNCHANGED <<Height, sig, db, unresolved, ctxDone, env>>

\* events, err := c.cli.BlockResults(ctx, &c.Height) and its error handling.
\* The call takes ctx: it does not succeed once ctx is cancelled.
Fetch(rpc) ==
    /\ pc = "loop"
    /\ ctxDone => rpc # "ok"
    /\ IF cli = "nil"
       THEN \* a call through the nil client
            /\ Panic
            /\ UNCHANGED cli
       ELSE CASE rpc = "ok" ->
                   /\ events' = BlockResults(Height)
                   /\ next' = 1
                   /\ log' = {}
                   /\ pc' = "dispatch"
                   /\ UNCHANGED <<cli, b>>
              [] rpc = "errReconnFail" ->
                   /\ cli' = "nil"
                   /\ Continue
              [] OTHER ->
                   \* events is nil and events.TxsResults is read
                   /\ Panic
                   /\ UNCHANGED cli
    /\ agent' = <<>>
    /\ UNCHANGED <<Height, sig, db, unresolved, ctxDone, env>>

\* c.handleEvent(ctx, event, c.Height) for the next event of the block.
\* Runs are followed while the discussions table has fewer than MaxRows rows.
Dispatch(f) ==
    /\ pc = "dispatch"
    /\ next <= Len(events)
    /\ (events[next].type = EventDiscussionType /\ events[next].ok)
         => Cardinality(DOMAIN db.discussions) < MaxRows
    /\ LET r == handleEvent(db, events[next], Height, f)
       IN  /\ db' = r.db
           /\ agent' = r.agent
           /\ log' = log \cup r.log
    /\ next' = next + 1
    /\ UNCHANGED <<pc, Height, cli, b, events, sig, unresolved, ctxDone, env>>

\* The places handleVote can fail before its signature loop.
BeginFaults ==
    {VoteFault(0, "commit", r) : r \in RpcOutcomes \ {"ok"}}
      \cup {VoteFault(0, k, "ok") : k \in {"dbNew", "dbSettle", "dbGrant"}}

\* The places one iteration of the signature loop can fail.
SigFaults ==
    {VoteFault(1, "abci", r) : r \in RpcOutcomes \ {"ok"}}
      \cup {VoteFault(1, kind, "ok") : kind \in {"dbFind", "dbCreate"}}

\* A commit cut down to no signature, and to its k-th signature.
NoSignature(commit) == [commit EXCEPT !.Signatures = <<>>]

OneSignature(commit, k) ==
    [commit EXCEPT !.Signatures = <<commit.Signatures[k]>>]

\* err = c.handleVote(ctx, c.Height), after the last event was dispatched, up
\* to its signature loop: the Commit call and the lookups of the matching
\* record.  faulty: one of these calls fails.  Commit takes ctx: it does not
\* succeed once ctx is cancelled.
Vote(faulty) ==
    /\ pc = "dispatch"
    /\ next > Len(events)
    /\ \E f \in IF faulty THEN BeginFaults ELSE {NoVoteFault} :
         /\ ctxDone => f.kind = "commit"
         /\ \E r \in {handleVote(db, Height, NoSignature(Commit(Height)),
                                  registered, f)} :
            LET enters == /\ Matched(db, Height) # "none"
                          /\ Commit(Height).Signatures # <<>>
            IN  /\ cli' = r.cli
                /\ CASE r.err = "nil" ->
                          /\ pc' = IF enters THEN "vote" ELSE "save"
                          /\ sig' = IF enters THEN 1 ELSE 0
                          /\ UNCHANGED <<b, events, next, log>>
                     [] r.err = "err" -> Continue /\ sig' = 0
                     [] OTHER -> Panic /\ sig' = 0
    /\ agent' = <<>>
    /\ UNCHANGED <<Height, db, unresolved, ctxDone, env>>

\* One iteration of the signature loop of handleVote: the account query of
\* the signature, the lookup of its vote row and the insert; after the last
\* signature handleVote returns nil.  It is what handleVote does on the
\* commit cut down to that signature: the matching record is the one found
\* before the loop, no event being dispatched in between.  faulty: one of
\* the calls fails.  ABCIQuery takes ctx: it does not succeed once ctx is
\* cancelled.
VoteSig(faulty) ==
    /\ pc = "vote"
    /\ \E f \in IF faulty THEN SigFaults ELSE {NoVoteFault} :
         /\ ctxDone => f.kind = "abci"
         /\ \E r \in {handleVote(db, Height, OneSignature(Commit(Height), sig),
                                  registered, f)} :
            LET last == sig = Len(Commit(Height).Signatures)
            IN  /\ db' = r.db
                /\ cli' = r.cli
                /\ unresolved' = (unresolved \/ (~faulty /\ r.err = "err"))
                /\ CASE r.err = "nil" ->
                          /\ pc' = IF last THEN "save" ELSE "vote"
                          /\ sig' = IF last THEN 0 ELSE sig + 1
                          /\ UNCHANGED <<b, events, next, log>>
                     [] r.err = "err" -> Continue /\ sig' = 0
                     [] OTHER -> Panic /\ sig' = 0
    /\ agent' = <<>>
    /\ UNCHANGED <<Height, ctxDone, env>>

\* A height write after which the loop moves on by two heights.
SaveHeightSkipping(fails) ==
    /\ pc = "save"
    /\ IF fails
       THEN /\ Continue
            /\ UNCHANGED <<Height, db, unresolved>>
       ELSE /\ db' = [db EXCEPT !.height = Height]
            /\ Height' = Height + 2
            /\ unresolved' = FALSE
            /\ events' = <<>>
            /\ next' = 1
            /\ log' = {}
            /\ pc' = "idle"
            /\ b' = 0
    /\ agent' = <<>>
    /\ UNCHANGED <<cli, sig, ctxDone, env>>

\* c.db.Save(Height{Id: 1, Height: uint64(c.Height)}), the `continue` on its
\* error, else c.Height++ and the loop condition.
SaveHeight(fails) ==
    /\ pc = "save"
    /\ IF fails
       THEN /\ Continue
            /\ UNCHANGED <<Height, db, unresolved>>
       ELSE /\ db' = [db EXCEPT !.height = Height]
            /\ Height' = Height + 1
            /\ unresolved' = FALSE
            /\ events' = <<>>
            /\ next' = 1
            /\ log' = {}
            /\ IF b > Height + 1
               THEN pc' = "loop" /\ b' = b
               ELSE pc' = "idle" /\ b' = 0
    /\ agent' = <<>>
    /\ UNCHANGED <<cli, sig, ctxDone, env>>

\* case <-ctx.Done(): return
Stop ==
    /\ pc = "idle"
    /\ ctxDone
    /\ pc' = "stopped"
    /\ UNCHANGED <<Height, cli, b, events, next, sig, db, log, agent,
                   unresolved, ctxDone, env>>

\* The context is cancelled.
Cancel ==
    /\ ~ctxDone
    /\ pc \notin {"crashed", "stopped"}
    /\ ctxDone' = TRUE
    /\ UNCHANGED <<pc, Height, cli, b, events, next, sig, db, log, agent,
                   unresolved, env>>

\* The process ends (killed, panicked or stopped) and is started again:
\* only the store survives.
Restart ==
    /\ pc' = "idle"
    /\ Height' = NewChainIndexer(db).Height
    /\ cli' = NewChainIndexer(db).cli
    /\ b' = 0
    /\ events' = <<>>
    /\ next' = 1
    /\ sig' = 0
    /\ log' = {}
    /\ agent' = <<>>
    /\ unresolved' = FALSE
    /\ ctxDone' = FALSE
    /\ UNCHANGED <<db, env>>

\* ----------------------------------------------------------- environment

\* The chain commits its next block.  Status, in Tick, is the only reader of
\* the head: a block committed while Start is busy is seen as one committed
\* just before the next tick.
Grow ==
    /\ pc = "idle"
    /\ head <= MaxHeight
    /\ head' = head + 1
    /\ UNCHANGED <<pc, Height, cli, b, events, next, sig, db, log, agent,
                   unresolved, ctxDone, chain, registered>>

\* The chain application learns an account.  The account queries of
\* handleVote are the only readers of the accounts: one learnt while the
\* events of a block are fetched or dispatched is seen as one learnt before
\* that iteration of the catch-up loop.
Register(a) ==
    /\ pc \in {"idle", "loop", "vote"}
    /\ a \notin registered
    /\ registered' = registered \cup {a}
    /\ UNCHANGED <<pc, Height, cli, b, events, next, sig, db, log, agent,
                   unresolved, ctxDone, chain, head>>

\* -------------------------------------------------------- specifications

\* The sync loop with every failure of the chain RPC and of the store, and
\* restarts of the process at any moment.
Next ==
    \/ \E newFails \in BOOLEAN, rpc \in RpcOutcomes : Tick(newFails, rpc)
    \/ \E rpc \in RpcOutcomes : Fetch(rpc)
    \/ \E f \in StoreFaults : Dispatch(f)
    \/ \E faulty \in BOOLEAN : Vote(faulty)
    \/ \E faulty \in BOOLEAN : VoteSig(faulty)
    \/ \E fails \in BOOLEAN : SaveHeight(fails)
    \/ Restart
    \/ Grow
    \/ \E a \in Accounts : Register(a)

Spec == Init /\ [][Next]_vars

\* The sync loop where no call fails and every signer is known: the process
\* is only killed and started again.
InitResume == InitOver(Chains, Accounts)

NextResume ==
    \/ Tick(FALSE, "ok")
    \/ Fetch("ok")
    \/ Dispatch(NoFault)
    \/ Vote(FALSE)
    \/ VoteSig(FALSE)
    \/ SaveHeight(FALSE)
    \/ Restart
    \/ Grow

SpecResume == InitResume /\ [][NextResume]_vars

\* Events that do not decode (the decoder returns nil), one of each
\* recognized type, an event of a type no handler is registered for, and a
\* second proposal.
MG == Event(EventGrantType, FALSE, 0, 0, 0, 0)
MD == Event(EventDiscussionType, FALSE, 0, 0, 0, 0)
MS == Event(EventSettleProposalType, FALSE, 0, 0, 0, 0)
MP == Event(EventProposalType, FALSE, 0, 0, 0, 0)
U1 == Event("transfer", TRUE, 1, 3, 1, 4)
P2 == Event(EventProposalType, TRUE, 2, 0, 0, 8)

\* Blocks that mix them with well-formed events.
EventBlocks ==
    { Block(<< <<MP, P1>>, <<U1, P2>> >>, <<SigV0, SigV1>>),
      Block(<< <<MS, S1>>, <<MD, D1>> >>, <<SigV1, SigV0>>),
      Block(<< <<MG, G1, U1>>, <<S1, P2>> >>, <<SigV0>>),
      Block(<< <<G1>>, <<MD>> >>, <<SigV1>>) }

EventChains == [1..MaxHeight -> EventBlocks]

\* The faults of the advisory-agent calls alone.
AgentFaults == {f \in HandlerFaults : ~f.db1 /\ ~f.db2}

\* The sync loop over blocks with malformed and unknown events, every signer
\* known; only calls of the advisory agent fail.
InitEvents == InitOver(EventChains, Accounts)

NextEvents ==
    \/ Tick(FALSE, "ok")
    \/ Fetch("ok")
    \/ \E f \in AgentFaults : Dispatch(f)
    \/ Vote(FALSE)
    \/ VoteSig(FALSE)
    \/ SaveHeight(FALSE)
    \/ Grow

SpecEvents == InitEvents /\ [][NextEvents]_vars

\* The blocks without a Discussion event: the store of a run over them stays
\* within a bound however often a height is processed again.
QuietBlocks ==
    {blk \in Blocks :
       \A ev \in Range(Flatten(blk.txs)) : ev.type # EventDiscussionType}

QuietChains == [1..MaxHeight -> QuietBlocks]

\* The sync loop with the shutdown signal: an RPC call fails only when it is
\* made with the cancelled context, the write of the height may fail, the
\* validator of index 1 stays unknown.
InitShutdown == InitOver(QuietChains, {a \in Accounts : a.Index = 0})

\* The steps of Start itself.  Status is called with context.TODO().
Running ==
    \/ Tick(FALSE, "ok")
    \/ \E rpc \in RpcOutcomes : (rpc = "ok" \/ ctxDone) /\ Fetch(rpc)
    \/ Dispatch(NoFault)
    \/ \E faulty \in BOOLEAN : (faulty => ctxDone) /\ Vote(faulty)
    \/ \E faulty \in BOOLEAN : (faulty => ctxDone) /\ VoteSig(faulty)
    \/ \E fails \in BOOLEAN : SaveHeight(fails)
    \/ Stop

NextShutdown ==
    \/ Running
    \/ Cancel
    \/ Grow

\* The goroutine keeps running, and a select that finds ctx.Done() ready
\* again and again takes that case at some time.
SpecShutdown ==
    InitShutdown /\ [][NextShutdown]_vars /\ WF_vars(Running) /\ SF_vars(Stop)

\* The sync loop on a chain that keeps growing, where a call that fails
\* succeeds at some later try and an unknown signer becomes known.
InitLive == InitOver(QuietChains, {a \in Accounts : a.Index = 0})

\* The steps of Start in which every call succeeds.
TickOk == Tick(FALSE, "ok")
FetchOk == Fetch("ok")
VoteOk == Vote(FALSE) /\ pc' \in {"vote", "save"}
VoteSigOk(k) == VoteSig(FALSE) /\ sig = k /\ pc' \in {"vote", "save"}

\* The positions a signature has in a commit.
SigPositions == UNION {DOMAIN blk.sigs : blk \in Blocks}
SaveOk == SaveHeight(FALSE)

\* The steps of Start, with their failures.
RunningLive ==
    \/ \E newFails \in BOOLEAN, rpc \in RpcOutcomes : Tick(newFails, rpc)
    \/ \E rpc \in RpcOutcomes : Fetch(rpc)
    \/ Dispatch(NoFault)
    \/ \E faulty \in BOOLEAN : Vote(faulty)
    \/ \E faulty \in BOOLEAN : VoteSig(faulty)
    \/ \E fails \in BOOLEAN : SaveHeight(fails)

NextLive ==
    \/ RunningLive
    \/ Grow
    \/ \E a \in Accounts : Register(a)

\* The goroutine keeps running; a call tried again and again succeeds at
\* some time; the chain grows and learns the accounts.
SpecLive ==
    /\ InitLive /\ [][NextLive]_vars
    /\ WF_vars(RunningLive)
    /\ SF_vars(TickOk) /\ SF_vars(FetchOk) /\ SF_vars(VoteOk)
    /\ \A k \in SigPositions : SF_vars(VoteSigOk(k))
    /\ SF_vars(SaveOk)
    /\ SF_vars(Grow)
    /\ \A a \in Accounts : SF_vars(Register(a))

\* ------------------------------------------------------------------ claims

\* Errors a handler logs when it could not do its writes.
HandlerErrors ==
    {"get proposal fail", "save proposal fail", "save account fail",
     "save validator fail", "save discusstion fail"}

\* C1: the persisted height becomes H only in an iteration in which every
\* event of height H was dispatched and handled successfully (no handler
\* logged a failed lookup or write) and handleVote(H) then returned nil.
HeightAfterWork ==
    [][db'.height # db.height =>
         /\ pc = "save"
         /\ db'.height = Height
         /\ events = BlockResults(Height)
         /\ next > Len(events)
         /\ log \cap HandlerErrors = {}]_vars

\* C2: the persisted height never decreases, whatever fails and whenever the
\* process is started again.
MonotonicProgress == [][db'.height >= db.height]_vars

\* C2 witness: the height was persisted more than once.
ProgressMade == db.height > 1

\* Rows of a vote table that share their height and voter index.
SameVote(votes, j, k) ==
    /\ votes[j].Height = votes[k].Height
    /\ votes[j].VoterIndex = votes[k].VoterIndex

\* C3: each vote table holds at most one row per (height, voter index).
AtMostOneVote ==
    /\ \A j, k \in DOMAIN db.proposalVotes :
         SameVote(db.proposalVotes, j, k) => j = k
    /\ \A j, k \in DOMAIN db.grantVotes :
         SameVote(db.grantVotes, j, k) => j = k

\* The signatures of the commit at h whose account lookup gives index i.
SignersOf(h, i) ==
    {k \in DOMAIN chain[h].sigs :
       LET q == queryAccount(registered, 0, HexString(chain[h].sigs[k].addr), "ok")
       IN  q.err = "nil" /\ q.acc.Index = i}

\* C3 witness: a height is persisted whose commit has two signatures of one
\* voter index, and that voter's row is in a vote table.
TwoSignaturesOneRow ==
    \E h \in DOMAIN chain, i \in {a.Index : a \in Accounts} :
       /\ db.height >= h
       /\ Cardinality(SignersOf(h, i)) > 1
       /\ \E r \in Rows(db.proposalVotes) \cup Rows(db.grantVotes) :
            r.Height = h /\ r.VoterIndex = i

\* Only the vote tables of two stores.
Votes(store) == <<store.proposalVotes, store.grantVotes>>

\* reconcile(h) on a store, no call failing.
Reconcile(store, h) == handleVote(store, h, Commit(h), registered, NoVoteFault)

\* C4: on every store the loop reaches and for every height, a second
\* handleVote right after a first one, on the same commit and accounts,
\* inserts no row and ends as the first did.
ReconcileTwice ==
    \A h \in DOMAIN chain :
       LET once  == Reconcile(db, h)
           twice == Reconcile(once.db, h)
       IN  Votes(twice.db) = Votes(once.db) /\ twice.err = once.err

\* C4 witness: handleVote is about to run on a store that holds some rows
\* of this height and lacks others, which it inserts.
ReconcileOnPartialRows ==
    /\ pc = "dispatch"
    /\ next > Len(events)
    /\ \E r \in Rows(db.proposalVotes) \cup Rows(db.grantVotes) : r.Height = Height
    /\ Votes(Reconcile(db, Height).db) # Votes(db)

RECURSIVE RunEvents(_, _, _)
\* Every event of a block dispatched in order, no call failing.
RunEvents(store, evs, h) ==
    IF evs = <<>> THEN store
    ELSE RunEvents(handleEvent(store, Head(evs), h, NoFault).db, Tail(evs), h)

RECURSIVE Uninterrupted(_)
\* The store of a run that processes heights 1..h once each.
Uninterrupted(h) ==
    IF h = 0 THEN NewDB
    ELSE [Reconcile(RunEvents(Uninterrupted(h - 1), BlockResults(h), h), h).db
            EXCEPT !.height = h]

\* C5: when a height is persisted, after any number of kills and restarts,
\* the store equals the store of the uninterrupted run over the same blocks.
ResumeSafety ==
    [][(db'.height # db.height) => (db' = Uninterrupted(db'.height))]_vars

\* C6: the sync loop never panics.
NeverCrashes == pc # "crashed"

\* C7: after a failed handleVote or a failed height write the loop body is
\* not entered again in the same tick: it is entered from there only with
\* the height advanced.
FailureEndsTick ==
    [][(pc \in {"dispatch", "vote", "save"} /\ pc' = "loop")
         => (Height' = Height + 1)]_vars

\* Whether the account lookup resolves the signer of v, and to which index.
Resolves(v) == queryAccount(registered, 0, HexString(v.addr), "ok").err = "nil"

IndexOf(v) == queryAccount(registered, 0, HexString(v.addr), "ok").acc.Index

VotesOf(store, table) ==
    IF table = "proposalVotes" THEN store.proposalVotes ELSE store.grantVotes

\* The matched vote table holds, for height h, exactly one row per signer of
\* the commit and no other row.
OneRowPerSigner(store, h) ==
    LET votes == VotesOf(store, Matched(store, h))
        sigs  == Commit(h).Signatures
    IN  /\ \A k \in DOMAIN sigs :
             Cardinality({j \in DOMAIN votes :
                            /\ votes[j].Height = h
                            /\ votes[j].VoterIndex = IndexOf(sigs[k])}) = 1
        /\ \A j \in DOMAIN votes :
             votes[j].Height = h =>
               \E k \in DOMAIN sigs : votes[j].VoterIndex = IndexOf(sigs[k])

\* handleVote is about to run at a height that matches a pending record.
AboutToReconcile ==
    /\ pc = "dispatch"
    /\ next > Len(events)
    /\ Matched(db, Height) # "none"

\* handleVote is at a signature whose address does not resolve.
AtUnresolvedSigner ==
    pc = "vote" /\ ~Resolves(Commit(Height).Signatures[sig])

\* C8, the signer blocks: at a signature that does not resolve handleVote
\* does not go on to the next signature nor return nil, and nothing is
\* written, the persisted height included; a height that matches is
\* persisted only with every signer resolved and one row per signer.
SignerBlocks ==
    /\ AtUnresolvedSigner
         => /\ pc' # "save"
            /\ ~(pc' = "vote" /\ sig' # sig)
            /\ db' = db
    /\ db'.height # db.height /\ Matched(db, Height) # "none"
         => /\ \A v \in Range(Commit(Height).Signatures) : Resolves(v)
            /\ OneRowPerSigner(db', Height)

\* C8, the retry recovers: once every signer resolves, handleVote on the
\* same commit, no call failing, succeeds and leaves one row per signer,
\* whatever rows the failed attempts left.
RetryRecovers ==
    AboutToReconcile /\ (\A v \in Range(Commit(Height).Signatures) : Resolves(v))
      => /\ Reconcile(db, Height).err = "nil"
         /\ OneRowPerSigner(Reconcile(db, Height).db, Height)

\* C8: an unresolvable signer blocks the height, and the retry recovers.
UnresolvedSignerBlocksThenRecovers == []RetryRecovers /\ [][SignerBlocks]_vars

\* C8 witness: handleVote failed on an unresolved signer at this height, and
\* a retry has now succeeded, with one row per signer.
RecoveredAfterUnresolved ==
    /\ pc = "save"
    /\ unresolved
    /\ Matched(db, Height) # "none"
    /\ OneRowPerSigner(db, Height)

\* C9: the height is not persisted in an iteration in which a SettleProposal
\* event found no Proposal row.
SettleUnknownAborts ==
    [][(db'.height # db.height) => ("get proposal fail" \notin log)]_vars

\* C10: a settlement height that is not zero never changes.
SettleHeightWriteOnce ==
    [][\A id \in DOMAIN db.proposals :
         db.proposals[id].SettleHeight # 0 =>
           /\ id \in DOMAIN db'.proposals
           /\ db'.proposals[id].SettleHeight = db.proposals[id].SettleHeight]_vars

\* The event types a handler is registered for.
Recognized ==
    {EventGrantType, EventDiscussionType, EventSettleProposalType,
     EventProposalType}

\* The loop is about to dispatch an event.
AboutToDispatch == pc = "dispatch" /\ next <= Len(events)

\* The event is done with and the next event of the height is up, with
\* nothing written and no advisory-agent call made.
Dropped ==
    /\ db' = db
    /\ agent' = <<>>
    /\ pc' = "dispatch"
    /\ next' = next + 1
    /\ events' = events
    /\ Height' = Height

\* C11: dispatching an event of a recognized type that does not decode
\* changes no table, calls no advisory agent, and leaves the loop at the
\* next event of the same height.
DecodeRobust ==
    [][(AboutToDispatch /\ events[next].type \in Recognized /\ ~events[next].ok)
         => Dropped]_vars

\* C11 witness: height 1 is persisted, its first event was a malformed
\* Proposal event and the Proposal event after it left its row.
MalformedThenPersisted ==
    /\ db.height >= 1
    /\ BlockResults(1)[1] = MP
    /\ BlockResults(1)[2] = P1
    /\ 1 \in DOMAIN db.proposals

\* C12: a SettleProposal event for a stored proposal changes the status and
\* the settlement height of that row and nothing else in the store; a
\* Proposal event leaves its row with the event's status, the height as
\* creation height and settlement height 0.
SettleFrame ==
    [][AboutToDispatch /\ events[next].ok =>
         LET ev == events[next]
         IN  /\ (ev.type = EventSettleProposalType /\ ev.id \in DOMAIN db.proposals)
                  => db' = [db EXCEPT !.proposals[ev.id].Status = ev.st,
                                      !.proposals[ev.id].SettleHeight = Height]
             /\ ev.type = EventProposalType
                  => /\ db'.proposals[ev.id].Status = ev.st
                     /\ db'.proposals[ev.id].NewHeight = Height
                     /\ db'.proposals[ev.id].SettleHeight = 0
                     /\ db'.proposals[ev.id].ProposerIndex = ev.who
                     /\ db'.proposals[ev.id].Data = ev.data]_vars

\* C12 witness: proposal 1, created at height 1, was settled at height 2 and
\* kept its creation height, proposer and payload; proposal 2 is untouched.
SettledLater ==
    /\ DOMAIN db.proposals = {1, 2}
    /\ db.proposals[1] = [Id |-> 1, ProposerIndex |-> P1.who, Data |-> P1.data,
                          NewHeight |-> 1, SettleHeight |-> 2, Status |-> S1.st]
    /\ db.proposals[2] = [Id |-> 2, ProposerIndex |-> P2.who, Data |-> P2.data,
                          NewHeight |-> 1, SettleHeight |-> 0, Status |-> P2.st]

\* The rows of a vote table stamped with height h.
VotesAt(votes, h) == {r \in Rows(votes) : r.Height = h}

\* C13: at a height with a proposal created at it, a commit whose n
\* signatures resolve to n distinct validators and no vote row of that
\* height yet, handleVote succeeds and adds exactly n ProposalVote rows, one
\* per signature, with that proposal, height, voter index, address and vote
\* code; a second handleVote adds none.
OneRowPerSignature ==
    \A h \in DOMAIN chain :
       LET new  == First(db.proposals, Where(db.proposals, "NewHeight", h))
           sigs == Commit(h).Signatures
           r    == Reconcile(db, h)
           rows == Rows(r.db.proposalVotes) \ Rows(db.proposalVotes)
       IN  ( /\ new.Id # 0
             /\ \A k \in DOMAIN sigs : Resolves(sigs[k])
             /\ \A j, k \in DOMAIN sigs :
                  j # k => IndexOf(sigs[j]) # IndexOf(sigs[k])
             /\ VotesAt(db.proposalVotes, h) = {} )
           => /\ r.err = "nil"
              /\ Cardinality(rows) = Len(sigs)
              /\ \A k \in DOMAIN sigs :
                   \E row \in rows :
                      /\ row.Proposal = new.Id
                      /\ row.Height = h
                      /\ row.VoterIndex = IndexOf(sigs[k])
                      /\ row.VoterAddress = HexString(sigs[k].addr)
                      /\ row.Vote = sigs[k].code
              /\ r.db.grantVotes = db.grantVotes
              /\ Reconcile(r.db, h).db = r.db

\* C13 witness: handleVote has succeeded at the creation height of a
\* proposal on a commit of two signers, and two vote rows of that height are
\* stored.
TwoSignersTwoRows ==
    /\ pc = "save"
    /\ Where(db.proposals, "NewHeight", Height) # {}
    /\ Len(Commit(Height).Signatures) = 2
    /\ Cardinality({r.VoterIndex : r \in VotesAt(db.proposalVotes, Height)}) = 2

\* C14: dispatching an event of a type no handler is registered for changes
\* no table and not the persisted height, calls no advisory agent, and
\* leaves the loop at the next event of the same height.
UnknownIgnored ==
    [][(AboutToDispatch /\ events[next].type \notin Recognized) => Dropped]_vars

\* C14 witness: an event of an unknown type was dispatched and the Proposal
\* event after it has left its row.
SiblingAfterUnknown ==
    /\ pc = "dispatch"
    /\ \E k \in DOMAIN events :
         /\ events[k] = U1
         /\ k + 1 < next
         /\ events[k + 1] = P2
    /\ 2 \in DOMAIN db.proposals

\* C15: a failing advisory-agent call changes nothing of what a handler
\* stores nor of what the loop does next, and the store at every write of
\* the persisted height is the store of the run in which no call failed.
AgentFailuresHarmless ==
    [][/\ AboutToDispatch =>
            /\ db' = handleEvent(db, events[next], Height, NoFault).db
            /\ agent' = handleEvent(db, events[next], Height, NoFault).agent
            /\ pc' = "dispatch"
            /\ next' = next + 1
       /\ (db'.height # db.height) => (db' = Uninterrupted(db'.height))]_vars

\* C15 witness: the advisory agent failed on a Discussion event of this
\* height, the Discussion row is stored and handleVote has run.
AgentFailedRowStored ==
    /\ pc = "save"
    /\ "add discussion fail" \in log
    /\ \E r \in Rows(db.discussions) : r.Height = Height /\ r.Proposal = D1.id

\* C16: once the context is cancelled, Start returns.
ShutdownHonoured == ctxDone ~> (pc = "stopped")

\* C17: the persisted height changes from N to N + 1 only, at the end of an
\* iteration that fetched the block of N + 1 and dispatched all its events;
\* events are dispatched one by one in the order of the block results;
\* handleVote runs, signature by signature, and vote rows are written, only
\* after the last event of the height, and the height write follows only
\* its success, when a handleVote of the height has nothing left to write;
\* c.Height moves by one, after the write, or back to the persisted
\* height + 1 at a restart.
OrderedGapFree ==
    [][/\ (db'.height # db.height) =>
            /\ db'.height = db.height + 1
            /\ db'.height = Height
            /\ pc = "save"
            /\ events = BlockResults(Height)
            /\ next > Len(events)
       /\ (pc' = "vote" /\ pc # "vote") =>
            /\ pc = "dispatch"
            /\ events = BlockResults(Height)
            /\ next > Len(events)
            /\ sig' = 1
            /\ db' = db
       /\ (pc' = "vote" /\ pc = "vote" /\ sig' # sig) => (sig' = sig + 1)
       /\ (pc' = "save" /\ pc # "save") =>
            /\ pc \in {"dispatch", "vote"}
            /\ events = BlockResults(Height)
            /\ next > Len(events)
            /\ pc = "dispatch" => (Matched(db, Height) = "none" /\ db' = db)
            /\ pc = "vote" => (sig = Len(Commit(Height).Signatures))
            /\ Reconcile(db', Height) = [err |-> "nil", db |-> db', cli |-> "ok"]
       /\ (next' # next /\ pc' = "dispatch" /\ pc = "dispatch") =>
            /\ next' = next + 1
            /\ events' = events
            /\ events = BlockResults(Height)
            /\ Height' = Height
            /\ \E f \in StoreFaults :
                 db' = handleEvent(db, events[next], Height, f).db
       /\ (Votes(db') # Votes(db)) =>
            /\ pc = "vote"
            /\ next > Len(events)
            /\ pc' \in {"vote", "save"}
       /\ (Height' # Height) =>
            \/ Height' = Height + 1 /\ db'.height = Height
            \/ Height' = db.height + 1 /\ pc' = "idle" /\ db' = db]_vars

\* C17 witness: height 1 is persisted and the events of height 2, more than
\* one, were dispatched and its handleVote has succeeded.
SecondHeightInOrder ==
    /\ pc = "save"
    /\ Height = 2
    /\ db.height = 1
    /\ Len(events) >= 2
    /\ next > Len(events)

\* The failures of the account query of one signature.
LookupFaults(sigs) ==
    {VoteFault(k, "abci", r) : k \in 1..Len(sigs), r \in RpcOutcomes \ {"ok"}}

\* C18: handleVote reconciles the first kind that matches the height, in
\* the order proposal created, proposal settled, grant: its new rows are
\* ProposalVote rows of the created proposal, else ProposalVote rows of the
\* settled proposal, else GrantVote rows of the grant, and the other vote
\* table is unchanged; when nothing matches it returns nil whatever the
\* account query would answer, and changes nothing.
KindSelection ==
    \A h \in DOMAIN chain :
       LET new    == Where(db.proposals, "NewHeight", h)
           settle == Where(db.proposals, "SettleHeight", h)
           grant  == Where(db.grants, "Height", h)
           sigs   == Commit(h).Signatures
           r      == Reconcile(db, h)
           addedP == Rows(r.db.proposalVotes) \ Rows(db.proposalVotes)
           addedG == Rows(r.db.grantVotes) \ Rows(db.grantVotes)
           first  == IF new # {} THEN First(db.proposals, new)
                     ELSE First(db.proposals, settle)
       IN  /\ (new # {} \/ settle # {}) =>
                /\ addedG = {}
                /\ \A row \in addedP : row.Proposal = first.Id /\ row.Height = h
                /\ VotesAt(db.proposalVotes, h) = {} => addedP # {}
           /\ (new = {} /\ settle = {} /\ grant # {}) =>
                /\ addedP = {}
                /\ \A row \in addedG :
                      /\ row.AccountIndex = First(db.grants, grant).Id
                      /\ row.Height = h
                /\ VotesAt(db.grantVotes, h) = {} => addedG # {}
           /\ (new = {} /\ settle = {} /\ grant = {}) =>
                \A f \in LookupFaults(sigs) \cup {NoVoteFault} :
                   handleVote(db, h, Commit(h), {}, f)
                     = [err |-> "nil", db |-> db, cli |-> "ok"]

\* C18 witness: handleVote has succeeded at a height that is the creation
\* height of one proposal, the settlement height of another and the height
\* of a grant; the vote rows of the height are those of the created
\* proposal, and there is no GrantVote row of the height.
FirstOfThreeKinds ==
    LET new    == Where(db.proposals, "NewHeight", Height)
        settle == Where(db.proposals, "SettleHeight", Height)
    IN  /\ pc = "save"
        /\ new # {} /\ settle # {} /\ new \cap settle = {}
        /\ Where(db.grants, "Height", Height) # {}
        /\ VotesAt(db.proposalVotes, Height) # {}
        /\ \A row \in VotesAt(db.proposalVotes, Height) :
              row.Proposal = First(db.proposals, new).Id
        /\ VotesAt(db.grantVotes, Height) = {}

\* C19: after a failed reconnect (c.cli is nil) the loop is waiting for the
\* next tick: it is not inside the catch-up loop and has not crashed.
ReconnectFailureWaits == (cli = "nil") => (pc = "idle")

\* The heights the rows of the store are stamped with.
Stamps(store) ==
    {r.NewHeight : r \in Rows(store.proposals)}
      \cup {r.SettleHeight : r \in Rows(store.proposals)}
      \cup {r.Height : r \in Rows(store.grants) \cup Rows(store.discussions)
                              \cup Rows(store.proposalVotes)
                              \cup Rows(store.grantVotes)}

\* c.Height is the persisted height + 1, and no row is of a later height.
AtResumePoint ==
    /\ Height = db.height + 1
    /\ \A h \in Stamps(db) : h <= db.height + 1

\* C20: at any time, after starts, failures and restarts, c.Height is the
\* persisted height + 1 and the store holds work of no height beyond it;
\* the block the loop fetches is the block of the persisted height + 1.
ResumePoint ==
    /\ []AtResumePoint
    /\ [][(pc = "loop" /\ pc' = "dispatch")
            => (events' = BlockResults(db.height + 1))]_vars

\* C20 witness: height 1 is persisted, rows of height 2 are in the store
\* from an attempt that did not persist it, and height 2 is about to be
\* dispatched again from its first event.
SecondHeightAgain ==
    /\ pc = "dispatch"
    /\ next = 1
    /\ events # <<>>
    /\ db.height = 1
    /\ Height = 2
    /\ 2 \in Stamps(db)

\* C21: every vote row of a height is the vote of a signature of that
\* height's commit, stored under the index of the account that owns the
\* signature's address.
SignerOwnsVote ==
    \A h \in DOMAIN chain :
       \A row \in VotesAt(db.proposalVotes, h) \cup VotesAt(db.grantVotes, h) :
          \E k \in DOMAIN Commit(h).Signatures, a \in Accounts :
             /\ a.addr = Commit(h).Signatures[k].addr
             /\ a.Index = row.VoterIndex
             /\ row.Vote = Commit(h).Signatures[k].code

\* C22: every height of the chain below its head is persisted at some time,
\* and the persisted height only moves by one, after the handleVote of that
\* height has succeeded.
EventualIndexing ==
    /\ <>(db.height = MaxHeight)
    /\ [][(db'.height # db.height)
            => (db'.height = db.height + 1 /\ pc = "save")]_vars

\* Inside the catch-up loop c.Height is below the head the tick observed,
\* which the chain has reached; no row of the store is of the head height.
BelowObservedHead ==
    /\ pc \in {"loop", "dispatch", "vote", "save"} => (Height < b /\ b <= head)
    /\ db.height < head
    /\ \A h \in Stamps(db) : h < head

\* C23: a height is processed and persisted only while it is below the
\* head observed at the start of the tick, and the tick ends, after a
\* height write, with the persisted height one below that head and the head
\* height not processed.
CatchUpBound ==
    /\ []BelowObservedHead
    /\ [][/\ (db'.height # db.height) => (db'.height < b)
          /\ (pc = "save" /\ pc' = "idle" /\ db' # db) =>
               /\ db'.height = b - 1
               /\ Height' = b
               /\ \A h \in Stamps(db') : h < b]_vars

\* C23 witness: a tick has ended with the two heights below the head
\* persisted and the loop waiting at the head height.
CaughtUpBelowHead ==
    /\ pc = "idle"
    /\ head = 3
    /\ db.height = 2
    /\ Height = head
    /\ 2 \in Stamps(db)

====
